---- MODULE Spec2Model ----
(***************************************************************************)
(* Model of crossing.cpp: the bridge-and-torch crossing.                   *)
(*   Person / Area / CrossingState / CrossingHistory / FastCrossing        *)
(* Spec      : one call of FastCrossing::cross, statement by statement.    *)
(* FairSpec  : Spec with the (single-threaded) program always running on.  *)
(* SpecApi   : a caller invoking the public CrossingState moves directly.  *)
(* SpecOpt   : Spec followed by every legal schedule of the puzzle stated  *)
(*             in the file header, to compare total times.                 *)
(* SpecRuns  : three calls of cross on one FastCrossing object.            *)
(***************************************************************************)
EXTENDS Integers, Sequences, FiniteSets, TLC

VARIABLES
    initial_state,  \* the caller's CrossingState handed to cross()
    state,          \* FastCrossing::_state (or the caller's live state in SpecApi)
    hist,           \* FastCrossing::_hist : sequence of CrossingState copies
    pc,             \* position in FastCrossing::cross ("L<line>"), "done", "aborted", "api"
    ret,            \* return position of retrieve_fastest
    op,             \* SpecApi: the last CrossingState method called and its argument
    sLeft,          \* SpecOpt: people on the starting side in a legal schedule
    sTorch,         \* SpecOpt: side the torch is on
    sElapsed,       \* SpecOpt: time spent by the legal schedule so far
    runs            \* SpecRuns: input and returned history of the earlier calls of cross

vars == <<initial_state, state, hist, pc, ret, op, sLeft, sTorch, sElapsed, runs>>

\* ---------------------------------------------------------------- bounds
MaxN == 5        \* people in an input of cross
MaxApiN == 3     \* people in an input of the direct-call specification
MaxOptN == 4     \* people in an input compared against every legal schedule
MaxRunN == 3     \* people in an input of the repeated-call specification

\* crossing times of the default test data of main
Times == {1, 2, 5, 10}

\* ---------------------------------------------------------------- Person
\* struct Person without the name (no comparison reads it)
Person(id, t) == [ID |-> id, time |-> t]

\* operator < with the tie on the crossing time broken by the larger ID
Less_tie_reversed(lhs, rhs) ==
    IF lhs.time = rhs.time THEN lhs.ID > rhs.ID ELSE lhs.time < rhs.time

\* bool operator < (const Person&, const Person&)
Less(lhs, rhs) ==
    IF lhs.time = rhs.time THEN lhs.ID < rhs.ID ELSE lhs.time < rhs.time

\* bool operator == (const Person&, const Person&): the ID alone
PersonEq(lhs, rhs) == lhs.ID = rhs.ID

\* ---------------------------------------------------------------- Area
\* an Area is the std::set<Person> _people, ordered by Less
empty(A) == 0 = Cardinality(A)

size(A) == Cardinality(A)

\* *_people.begin()
fastest(A) == CHOOSE p \in A : \A q \in A \ {p} : Less(p, q)

\* slowest reading begin() in place of rbegin()
slowest_begin(A) == fastest(A)

\* *_people.rbegin()
slowest(A) == CHOOSE p \in A : \A q \in A \ {p} : Less(q, p)

\* transfer that erases the person and never inserts it
transfer_drop(from, to, p) == [from |-> from \ {p}, to |-> to]

\* void transfer(const Person p, Area& to): erase, then insert, no check
transfer(from, to, p) == [from |-> from \ {p}, to |-> to \cup {p}]

\* transfer_all with an if in place of the while
transfer_all_once(from, to) ==
    IF ~empty(from)
    THEN transfer(from, to, slowest(from))
    ELSE [from |-> from, to |-> to]

\* void transfer_all(Area& to): while(!empty()) transfer(slowest(), to)
RECURSIVE transfer_all(_, _)
transfer_all(from, to) ==
    IF ~empty(from)
    THEN LET r == transfer(from, to, slowest(from))
         IN  transfer_all(r.from, r.to)
    ELSE [from |-> from, to |-> to]

\* the elements of the std::set in iteration order, fastest first
RECURSIVE InOrder(_)
InOrder(A) ==
    IF A = {} THEN <<>>
    ELSE <<fastest(A)>> \o InOrder(A \ {fastest(A)})

\* bool operator == (const Area&, const Area&): std::set ==, that is equal
\* sizes and Person == element by element in iteration order
AreaEq(lhs, rhs) ==
    /\ size(lhs) = size(rhs)
    /\ \A i \in 1..size(lhs) : PersonEq(InOrder(lhs)[i], InOrder(rhs)[i])

\* ---------------------------------------------------------------- CrossingState
\* CrossingState(const std::vector<Person> people) : _lb(people)
CrossingState(ps) == [lb |-> ps, bridge |-> {}, rb |-> {}]

\* CrossingState() {}
EmptyState == CrossingState({})

\* the assert written with <= in place of <
bridge_has_room_off(s) == size(s.bridge) <= 2

\* the assert of l_to_b and r_to_b
bridge_has_room(s) == size(s.bridge) < 2

l_to_b(s, p) ==
    LET r == transfer(s.lb, s.bridge, p)
    IN  [s EXCEPT !.lb = r.from, !.bridge = r.to]

b_to_r(s, p) ==
    LET r == transfer(s.bridge, s.rb, p)
    IN  [s EXCEPT !.bridge = r.from, !.rb = r.to]

r_to_b(s, p) ==
    LET r == transfer(s.rb, s.bridge, p)
    IN  [s EXCEPT !.rb = r.from, !.bridge = r.to]

b_to_l(s, p) ==
    LET r == transfer(s.bridge, s.lb, p)
    IN  [s EXCEPT !.bridge = r.from, !.lb = r.to]

all_b_to_r(s) ==
    LET r == transfer_all(s.bridge, s.rb)
    IN  [s EXCEPT !.bridge = r.from, !.rb = r.to]

\* all_b_to_l moving the bridge to the right bank
all_b_to_l_right(s) ==
    LET r == transfer_all(s.bridge, s.rb)
    IN  [s EXCEPT !.bridge = r.from, !.rb = r.to]

all_b_to_l(s) ==
    LET r == transfer_all(s.bridge, s.lb)
    IN  [s EXCEPT !.bridge = r.from, !.lb = r.to]

\* the time of the fastest person on the bridge in place of the slowest
speed_across_bridge_fastest(s) ==
    IF empty(s.bridge) THEN 0 ELSE fastest(s.bridge).time

speed_across_bridge(s) ==
    IF empty(s.bridge) THEN 0 ELSE slowest(s.bridge).time

\* bool operator == (const CrossingState&, const CrossingState&)
StateEq(lhs, rhs) ==
    AreaEq(lhs.lb, rhs.lb) /\ AreaEq(lhs.bridge, rhs.bridge) /\ AreaEq(lhs.rb, rhs.rb)

\* ---------------------------------------------------------------- CrossingHistory
\* a history of references to the one live state in place of copies
record_alias(h, s) == [i \in 1..(Len(h) + 1) |-> s]

\* void record(const CrossingState& state) { _history.push_back(state); }
record(h, s) == Append(h, s)

\* t = in place of t +=: the time of the last snapshot alone
total_time_last(h) ==
    IF h = <<>> THEN 0 ELSE speed_across_bridge(h[Len(h)])

RECURSIVE total_time(_)
total_time(h) ==
    IF h = <<>> THEN 0
    ELSE total_time(SubSeq(h, 1, Len(h) - 1)) + speed_across_bridge(h[Len(h)])

\* bool visited(const CrossingState& state): 0 != std::count(...)
visited(h, s) == 0 # Cardinality({i \in 1..Len(h) : StateEq(h[i], s)})

\* ---------------------------------------------------------------- inputs
\* the people of the input: unique IDs, any crossing times (ties allowed)
People(n, f) == {Person(i, f[i]) : i \in 1..n}

\* main: FastCrossing crossing; CrossingState state(...); crossing.cross(state)
InitRun(maxn) ==
    /\ \E n \in 0..maxn : \E f \in [1..n -> Times] :
          initial_state = CrossingState(People(n, f))
    /\ state = EmptyState
    /\ hist = <<>>
    /\ pc = "L277"
    /\ ret = "none"
    /\ op = [name |-> "none", args |-> {}]
    /\ sLeft = initial_state.lb
    /\ sTorch = "L"
    /\ sElapsed = 0
    /\ runs = <<>>

Init == InitRun(MaxN)

\* ---------------------------------------------------------------- FastCrossing
left_empty == empty(state.lb)

\* the statement after each statement of cross and its helpers
SnapSucc(l) ==
    CASE l = "L280" -> "L283"
      [] l = "L286" -> "L287"
      [] l = "L288" -> "done"
      [] l = "L297" -> "L298"
      [] l = "L299" -> "L301"
      [] l = "L256" -> "L257"
      [] l = "L258" -> ret
      [] l = "L264" -> "L265"
      [] l = "L266" -> "L305"

UnchangedSched == UNCHANGED <<op, sLeft, sTorch, sElapsed, runs>>

\* clear() that leaves the history of the call before in _hist
Clear_noop ==
    /\ pc = "L277"
    /\ hist' = hist
    /\ pc' = "L279"
    /\ UNCHANGED <<initial_state, state, ret>>
    /\ UnchangedSched

\* line 277: clear()
Clear ==
    /\ pc = "L277"
    /\ hist' = <<>>
    /\ pc' = "L279"
    /\ UNCHANGED <<initial_state, state, ret>>
    /\ UnchangedSched

\* line 279: _state = initial_state
AssignState ==
    /\ pc = "L279"
    /\ state' = initial_state
    /\ pc' = "L280"
    /\ UNCHANGED <<initial_state, hist, ret>>
    /\ UnchangedSched

\* snap() that records only the states with somebody on the bridge
Snap_occupied_only ==
    /\ pc \in {"L280", "L286", "L288", "L297", "L299", "L256", "L258", "L264", "L266"}
    /\ hist' = IF empty(state.bridge) /\ hist # <<>> THEN hist ELSE record(hist, state)
    /\ pc' = SnapSucc(pc)
    /\ UNCHANGED <<initial_state, state, ret>>
    /\ UnchangedSched

\* snap(): lines 280, 286, 288, 297, 299, 256, 258, 264, 266
Snap ==
    /\ pc \in {"L280", "L286", "L288", "L297", "L299", "L256", "L258", "L264", "L266"}
    /\ hist' = record(hist, state)
    /\ pc' = SnapSucc(pc)
    /\ UNCHANGED <<initial_state, state, ret>>
    /\ UnchangedSched

\* the empty case falling into the one-person case in place of returning
TestNone_fallthrough ==
    /\ pc = "L283"
    /\ pc' = IF 0 = size(state.lb) THEN "L285" ELSE "L284"
    /\ UNCHANGED <<initial_state, state, hist, ret>>
    /\ UnchangedSched

\* line 283: if(0 == left().size()) return _hist
TestNone ==
    /\ pc = "L283"
    /\ pc' = IF 0 = size(state.lb) THEN "done" ELSE "L284"
    /\ UNCHANGED <<initial_state, state, hist, ret>>
    /\ UnchangedSched

\* line 284: if(1 == left().size())
TestOne ==
    /\ pc = "L284"
    /\ pc' = IF 1 = size(state.lb) THEN "L285" ELSE "L293"
    /\ UNCHANGED <<initial_state, state, hist, ret>>
    /\ UnchangedSched

\* fastest_l_to_b(): lines 285, 295, 296
FastestLToB ==
    /\ pc \in {"L285", "L295", "L296"}
    /\ IF ~empty(state.lb) /\ bridge_has_room(state)
       THEN /\ state' = l_to_b(state, fastest(state.lb))
            /\ pc' = CASE pc = "L285" -> "L286"
                       [] pc = "L295" -> "L296"
                       [] pc = "L296" -> "L297"
       ELSE /\ pc' = "aborted"
            /\ state' = state
    /\ UNCHANGED <<initial_state, hist, ret>>
    /\ UnchangedSched

\* all_b_to_r(): lines 287, 298, 265
AllBToR ==
    /\ pc \in {"L287", "L298", "L265"}
    /\ state' = all_b_to_r(state)
    /\ pc' = CASE pc = "L287" -> "L288"
               [] pc = "L298" -> "L299"
               [] pc = "L265" -> "L266"
    /\ UNCHANGED <<initial_state, hist, ret>>
    /\ UnchangedSched

\* line 293: while(!left_empty()), and the return of line 309
WhileTest ==
    /\ pc = "L293"
    /\ pc' = IF ~left_empty THEN "L295" ELSE "done"
    /\ UNCHANGED <<initial_state, state, hist, ret>>
    /\ UnchangedSched

\* the loop without its break
BreakTest_never ==
    /\ pc = "L301"
    /\ pc' = "L302"
    /\ UNCHANGED <<initial_state, state, hist, ret>>
    /\ UnchangedSched

\* line 301: if (left_empty()) break
BreakTest ==
    /\ pc = "L301"
    /\ pc' = IF left_empty THEN "done" ELSE "L302"
    /\ UNCHANGED <<initial_state, state, hist, ret>>
    /\ UnchangedSched

\* lines 302 and 306: retrieve_fastest()
CallRetrieve ==
    /\ pc \in {"L302", "L306"}
    /\ ret' = IF pc = "L302" THEN "L304" ELSE "L293"
    /\ pc' = "L255"
    /\ UNCHANGED <<initial_state, state, hist>>
    /\ UnchangedSched

\* retrieve_fastest sending the slowest of the right bank back
FastestRToB_slowest ==
    /\ pc = "L255"
    /\ IF ~empty(state.rb) /\ bridge_has_room(state)
       THEN /\ state' = r_to_b(state, slowest(state.rb))
            /\ pc' = "L256"
       ELSE /\ pc' = "aborted"
            /\ state' = state
    /\ UNCHANGED <<initial_state, hist, ret>>
    /\ UnchangedSched

\* line 255: fastest_r_to_b()
FastestRToB ==
    /\ pc = "L255"
    /\ IF ~empty(state.rb) /\ bridge_has_room(state)
       THEN /\ state' = r_to_b(state, fastest(state.rb))
            /\ pc' = "L256"
       ELSE /\ pc' = "aborted"
            /\ state' = state
    /\ UNCHANGED <<initial_state, hist, ret>>
    /\ UnchangedSched

\* line 257: all_b_to_l()
AllBToL ==
    /\ pc = "L257"
    /\ state' = all_b_to_l(state)
    /\ pc' = "L258"
    /\ UNCHANGED <<initial_state, hist, ret>>
    /\ UnchangedSched

\* send_slowest with one slowest_l_to_b call in place of two
CallSendSlowest_single ==
    /\ pc = "L304"
    /\ pc' = "L263"
    /\ UNCHANGED <<initial_state, state, hist, ret>>
    /\ UnchangedSched

\* line 304: send_slowest()
CallSendSlowest ==
    /\ pc = "L304"
    /\ pc' = "L262"
    /\ UNCHANGED <<initial_state, state, hist, ret>>
    /\ UnchangedSched

\* slowest_l_to_b calling fastest() in place of slowest()
SlowestLToB_fastest ==
    /\ pc \in {"L262", "L263"}
    /\ IF ~empty(state.lb) /\ bridge_has_room(state)
       THEN /\ state' = l_to_b(state, fastest(state.lb))
            /\ pc' = IF pc = "L262" THEN "L263" ELSE "L264"
       ELSE /\ pc' = "aborted"
            /\ state' = state
    /\ UNCHANGED <<initial_state, hist, ret>>
    /\ UnchangedSched

\* slowest_l_to_b(): lines 262, 263
SlowestLToB ==
    /\ pc \in {"L262", "L263"}
    /\ IF ~empty(state.lb) /\ bridge_has_room(state)
       THEN /\ state' = l_to_b(state, slowest(state.lb))
            /\ pc' = IF pc = "L262" THEN "L263" ELSE "L264"
       ELSE /\ pc' = "aborted"
            /\ state' = state
    /\ UNCHANGED <<initial_state, hist, ret>>
    /\ UnchangedSched

\* the test of line 305 inverted
IfNotEmpty_inverted ==
    /\ pc = "L305"
    /\ pc' = IF left_empty THEN "L306" ELSE "L293"
    /\ UNCHANGED <<initial_state, state, hist, ret>>
    /\ UnchangedSched

\* line 305: if (!left_empty())
IfNotEmpty ==
    /\ pc = "L305"
    /\ pc' = IF ~left_empty THEN "L306" ELSE "L293"
    /\ UNCHANGED <<initial_state, state, hist, ret>>
    /\ UnchangedSched

Next ==
    \/ Clear
    \/ AssignState
    \/ Snap
    \/ TestNone
    \/ TestOne
    \/ FastestLToB
    \/ AllBToR
    \/ WhileTest
    \/ BreakTest
    \/ CallRetrieve
    \/ FastestRToB
    \/ AllBToL
    \/ CallSendSlowest
    \/ SlowestLToB
    \/ IfNotEmpty

Spec == Init /\ [][Next]_vars

\* the program is one thread that runs until it returns or aborts
FairSpec == Spec /\ WF_vars(Next)

\* ---------------------------------------------------------------- direct calls
\* crossing times used for the people of the direct-call specification
ApiTimes == {1, 2}

\* a caller that builds a CrossingState and calls its public moves itself
InitApi ==
    /\ \E n \in 0..MaxApiN : \E f \in [1..n -> ApiTimes] :
          initial_state = CrossingState(People(n, f))
    /\ state = initial_state
    /\ hist = <<>>
    /\ pc = "api"
    /\ ret = "none"
    /\ op = [name |-> "none", args |-> {}]
    /\ sLeft = initial_state.lb
    /\ sTorch = "L"
    /\ sElapsed = 0
    /\ runs = <<>>

UnchangedApi == UNCHANGED <<initial_state, hist, ret, sLeft, sTorch, sElapsed, runs>>

\* l_to_b with the capacity test made after the transfer
Call_l_to_b_late ==
    /\ pc = "api"
    /\ \E p \in initial_state.lb :
          /\ op' = [name |-> "l_to_b", args |-> {p}]
          /\ state' = l_to_b(state, p)
          /\ pc' = IF bridge_has_room(state) THEN "api" ELSE "aborted"
    /\ UnchangedApi

\* void l_to_b(const Person& p): assert, then transfer
Call_l_to_b ==
    /\ pc = "api"
    /\ \E p \in initial_state.lb :
          /\ op' = [name |-> "l_to_b", args |-> {p}]
          /\ IF bridge_has_room(state)
             THEN state' = l_to_b(state, p) /\ pc' = "api"
             ELSE state' = state /\ pc' = "aborted"
    /\ UnchangedApi

\* void b_to_r(const Person& p)
Call_b_to_r ==
    /\ pc = "api"
    /\ \E p \in initial_state.lb :
          /\ op' = [name |-> "b_to_r", args |-> {p}]
          /\ state' = b_to_r(state, p)
          /\ pc' = "api"
    /\ UnchangedApi

\* void r_to_b(const Person& p): assert, then transfer
Call_r_to_b ==
    /\ pc = "api"
    /\ \E p \in initial_state.lb :
          /\ op' = [name |-> "r_to_b", args |-> {p}]
          /\ IF bridge_has_room(state)
             THEN state' = r_to_b(state, p) /\ pc' = "api"
             ELSE state' = state /\ pc' = "aborted"
    /\ UnchangedApi

\* void b_to_l(const Person& p)
Call_b_to_l ==
    /\ pc = "api"
    /\ \E p \in initial_state.lb :
          /\ op' = [name |-> "b_to_l", args |-> {p}]
          /\ state' = b_to_l(state, p)
          /\ pc' = "api"
    /\ UnchangedApi

\* void all_b_to_r()
Call_all_b_to_r ==
    /\ pc = "api"
    /\ op' = [name |-> "all_b_to_r", args |-> {}]
    /\ state' = all_b_to_r(state)
    /\ pc' = "api"
    /\ UnchangedApi

\* void all_b_to_l()
Call_all_b_to_l ==
    /\ pc = "api"
    /\ op' = [name |-> "all_b_to_l", args |-> {}]
    /\ state' = all_b_to_l(state)
    /\ pc' = "api"
    /\ UnchangedApi

NextApi ==
    \/ Call_l_to_b
    \/ Call_b_to_r
    \/ Call_r_to_b
    \/ Call_b_to_l
    \/ Call_all_b_to_r
    \/ Call_all_b_to_l

\* a program either runs cross (as main does) or drives a CrossingState itself
SpecApi == (Init \/ InitApi) /\ [][Next \/ NextApi]_vars

\* ---------------------------------------------------------------- legal schedules
\* The rules of the file header: at most 2 people on the bridge, a group walks
\* at the speed of its slowest member, the torch crosses with every group.
\* Schedules are explored up to the total time of the finished run of cross.
UnchangedRun == UNCHANGED <<initial_state, state, hist, pc, ret, op, runs>>

SchedForward ==
    /\ pc = "done"
    /\ sTorch = "L"
    /\ \E G \in SUBSET sLeft :
          /\ size(G) \in {1, 2}
          /\ sElapsed + slowest(G).time <= total_time(hist)
          /\ sLeft' = sLeft \ G
          /\ sElapsed' = sElapsed + slowest(G).time
    /\ sTorch' = "R"
    /\ UnchangedRun

SchedBack ==
    /\ pc = "done"
    /\ sTorch = "R"
    /\ sLeft # initial_state.lb
    /\ ~empty(sLeft)
    /\ \E G \in SUBSET (initial_state.lb \ sLeft) :
          /\ size(G) \in {1, 2}
          /\ sElapsed + slowest(G).time <= total_time(hist)
          /\ sLeft' = sLeft \cup G
          /\ sElapsed' = sElapsed + slowest(G).time
    /\ sTorch' = "L"
    /\ UnchangedRun

InitOpt == InitRun(MaxOptN)

NextOpt ==
    \/ Next
    \/ SchedForward
    \/ SchedBack

SpecOpt == InitOpt /\ [][NextOpt]_vars

\* ---------------------------------------------------------------- repeated calls
\* crossing times used for the people of the repeated-call specification
RunTimes == {1, 2}

\* one FastCrossing object; the first call is made as in main
InitRuns ==
    /\ \E n \in 0..MaxRunN : \E f \in [1..n -> RunTimes] :
          initial_state = CrossingState(People(n, f))
    /\ state = EmptyState
    /\ hist = <<>>
    /\ pc = "L277"
    /\ ret = "none"
    /\ op = [name |-> "none", args |-> {}]
    /\ sLeft = initial_state.lb
    /\ sTorch = "L"
    /\ sElapsed = 0
    /\ runs = <<>>

\* CrossingHistory hist = crossing.cross(state): the caller keeps the returned
\* copy and calls cross again on the same object; the second call is on any
\* input, the third on an input operator== to that of the first call
CallAgain ==
    /\ pc = "done"
    /\ Len(runs) < 2
    /\ runs' = Append(runs, [input |-> initial_state, result |-> hist])
    /\ \E n \in 0..MaxRunN : \E f \in [1..n -> RunTimes] :
          /\ initial_state' = CrossingState(People(n, f))
          /\ Len(runs) = 1 => StateEq(runs[1].input, initial_state')
    /\ pc' = "L277"
    /\ UNCHANGED <<state, hist, ret, op, sLeft, sTorch, sElapsed>>

NextRuns ==
    \/ Next
    \/ CallAgain

SpecRuns == InitRuns /\ [][NextRuns]_vars

TypeOK ==
    /\ pc \in {"L277", "L279", "L280", "L283", "L284", "L285", "L286", "L287",
               "L288", "L293", "L295", "L296", "L297", "L298", "L299", "L301",
               "L302", "L304", "L305", "L306", "L255", "L256", "L257", "L258",
               "L262", "L263", "L264", "L265", "L266", "done", "aborted", "api"}
    /\ ret \in {"none", "L304", "L293"}
\* ---------------------------------------------------------------- properties
SnapLines == {"L280", "L286", "L288", "L297", "L299", "L256", "L258", "L264", "L266"}

\* C1: in every snapshot recorded by cross the three banks hold N people in
\* all, are pairwise disjoint, and together are exactly the initial people.
Conservation ==
    \A i \in 1..Len(hist) :
        LET s == hist[i]
        IN  /\ size(s.lb) + size(s.bridge) + size(s.rb) = size(initial_state.lb)
            /\ s.lb \cap s.bridge = {}
            /\ s.lb \cap s.rb = {}
            /\ s.bridge \cap s.rb = {}
            /\ s.lb \cup s.bridge \cup s.rb = initial_state.lb

\* a finished run of four people, two of them with the same crossing time
ConservationWitness ==
    /\ pc = "done"
    /\ Len(hist) = 11
    /\ \E p, q \in initial_state.lb : p # q /\ p.time = q.time

\* C2: the bridge never holds more than two people: not in the live state
\* after any completed move, not in any recorded snapshot.
BridgeAtMostTwo ==
    /\ size(state.bridge) <= 2
    /\ \A i \in 1..Len(hist) : size(hist[i].bridge) <= 2

\* a direct r_to_b call has filled the bridge while a third person exists
BridgeFullWitness ==
    /\ pc = "api"
    /\ op.name = "r_to_b"
    /\ size(state.bridge) = 2
    /\ size(initial_state.lb) = 3

\* C3: when cross returns, the last snapshot has everybody on the right bank
\* and nobody on the left bank or the bridge.
AllAcross ==
    pc = "done" =>
        /\ Len(hist) >= 1
        /\ hist[Len(hist)] = [lb |-> {}, bridge |-> {}, rb |-> initial_state.lb]

AllAcrossWitness ==
    /\ pc = "done"
    /\ size(initial_state.lb) = 5
    /\ state.rb = initial_state.lb

\* C4: cross terminates, and whenever the loop test is reached again the left
\* bank is strictly smaller than at the loop test one pass earlier (a pass
\* records 8 snapshots, or 6 when it ends with the left bank empty).
CrossTerminates ==
    /\ <>(pc = "done")
    /\ [](pc = "L293" /\ Len(hist) > 1 =>
            LET k == IF left_empty THEN 6 ELSE 8
            IN  /\ Len(hist) > k
                /\ size(hist[Len(hist)].lb) < size(hist[Len(hist) - k].lb))

\* back at the loop test after a full pass, with people still to take over
CrossTerminatesWitness ==
    /\ pc = "L293"
    /\ Len(hist) = 9
    /\ size(state.lb) = 3

\* C5: no assert fires in cross: the bridge has room at every l_to_b and
\* r_to_b, every fastest() and slowest() is on a non-empty bank, and the left
\* bank holds at least two people before the couriers and before the slowest
\* pair are sent.
NoContractViolation ==
    /\ pc # "aborted"
    /\ pc \in {"L285", "L295", "L296", "L262", "L263"} =>
          ~empty(state.lb) /\ bridge_has_room(state)
    /\ pc = "L255" => ~empty(state.rb) /\ bridge_has_room(state)
    /\ pc \in {"L295", "L262"} => size(state.lb) >= 2 /\ empty(state.bridge)
    /\ pc \in {"L285", "L295", "L296"} => fastest(state.lb) \in state.lb
    /\ pc \in {"L262", "L263"} => slowest(state.lb) \in state.lb
    /\ pc = "L255" => fastest(state.rb) \in state.rb

\* three people: the second of the slowest pair is the returned courier, alone
NoContractViolationWitness ==
    /\ pc = "L263"
    /\ size(state.lb) = 1
    /\ size(state.bridge) = 1
    /\ size(initial_state.lb) = 3

\* the default test data of main
Canonical == {Person(1, 1), Person(2, 2), Person(3, 5), Person(4, 10)}

\* C6: on the people with times 1, 2, 5, 10 cross sends {1,2} over, 1 back,
\* {5,10} over, 2 back, {1,2} over; its total time is 17; and no legal
\* schedule brings everybody over in less than 17.
CanonicalSchedule ==
    initial_state.lb = Canonical =>
        LET A == Person(1, 1)
            B == Person(2, 2)
            C == Person(3, 5)
            D == Person(4, 10)
            St(l, b, r) == [lb |-> l, bridge |-> b, rb |-> r]
        IN  /\ pc = "done" =>
                /\ hist = << St({A, B, C, D}, {}, {}),
                             St({C, D}, {A, B}, {}), St({C, D}, {}, {A, B}),
                             St({C, D}, {A}, {B}),   St({A, C, D}, {}, {B}),
                             St({A}, {C, D}, {B}),   St({A}, {}, {B, C, D}),
                             St({A}, {B}, {C, D}),   St({A, B}, {}, {C, D}),
                             St({}, {A, B}, {C, D}), St({}, {}, {A, B, C, D}) >>
                /\ total_time(hist) = 17
            /\ (pc = "done" /\ empty(sLeft)) => sElapsed >= 17

\* a legal schedule for the default data that takes exactly 17
CanonicalScheduleWitness ==
    /\ initial_state.lb = Canonical
    /\ pc = "done"
    /\ empty(sLeft)
    /\ sTorch = "R"
    /\ sElapsed = 17

\* C7: no legal schedule brings everybody over in less time than the history
\* returned by cross.
GreedyIsMinimal ==
    (pc = "done" /\ empty(sLeft)) => sElapsed >= total_time(hist)

\* C8: a move of a person who is not in the source bank fails before any
\* bank changes.
NonResidentRejected ==
    [][(pc = "api" /\ op'.name \in {"l_to_b", "b_to_r", "r_to_b", "b_to_l"}) =>
          LET src == CASE op'.name = "l_to_b" -> state.lb
                       [] op'.name = "r_to_b" -> state.rb
                       [] OTHER -> state.bridge
          IN  (op'.args \cap src = {}) => (state' = state /\ pc' = "aborted")
      ]_vars

\* C9: l_to_b and r_to_b called with two people on the bridge fail and leave
\* every bank as it was; b_to_r and b_to_l never fail, whatever is on the bridge.
CapacityCheckedFirst ==
    [][pc = "api" =>
          /\ (op'.name \in {"l_to_b", "r_to_b"} /\ size(state.bridge) = 2) =>
                (pc' = "aborted" /\ state' = state)
          /\ op'.name = "b_to_r" =>
                /\ pc' = "api"
                /\ state' = [state EXCEPT !.bridge = state.bridge \ op'.args,
                                          !.rb = state.rb \cup op'.args]
          /\ op'.name = "b_to_l" =>
                /\ pc' = "api"
                /\ state' = [state EXCEPT !.bridge = state.bridge \ op'.args,
                                          !.lb = state.lb \cup op'.args]
      ]_vars

\* l_to_b was refused on a full bridge
CapacityCheckedFirstWitness ==
    /\ pc = "aborted"
    /\ op.name = "l_to_b"
    /\ size(state.bridge) = 2
    /\ op.args \subseteq state.lb

\* C10: a step of cross either leaves the history alone or, at a snap(),
\* appends one copy of the live state; the snapshots recorded before stay
\* what they were, whatever is done to the live state afterwards.
HistoryAppendOnly ==
    [][/\ pc \in SnapLines =>
            /\ Len(hist') = Len(hist) + 1
            /\ hist'[Len(hist')] = state
       /\ pc \notin SnapLines => hist' = hist
       /\ \A i \in 1..Len(hist) : i <= Len(hist') /\ hist'[i] = hist[i]
      ]_vars

\* a long history whose first snapshots differ from the live state
HistoryAppendOnlyWitness ==
    /\ Len(hist) = 11
    /\ hist[1] # state
    /\ hist[10] # state
    /\ pc = "done"
\* C11: on one FastCrossing object, a call of cross on an input operator== to
\* the input of an earlier call returns a history of the same length whose
\* snapshots are operator== position by position, also after a call on another
\* input in between; and no step of a call changes the caller's state.
Deterministic ==
    /\ [](pc = "done" =>
            \A k \in 1..Len(runs) :
                StateEq(runs[k].input, initial_state) =>
                    /\ Len(runs[k].result) = Len(hist)
                    /\ \A i \in 1..Len(hist) : StateEq(runs[k].result[i], hist[i]))
    /\ [][pc # "done" => initial_state' = initial_state]_vars

\* the third call has returned; the first call was on an input with the same
\* IDs in the same order but another crossing time, the second on another input
DeterministicWitness ==
    /\ pc = "done"
    /\ Len(runs) = 2
    /\ Len(hist) = 7
    /\ StateEq(runs[1].input, initial_state)
    /\ runs[1].input # initial_state
    /\ ~StateEq(runs[2].input, initial_state)
    /\ Len(runs[2].result) = 3
\* C12: with one or two people the history is three snapshots (all on the left
\* bank, all on the bridge, all on the right bank) and the total time is the
\* largest crossing time of the input.
SingleCrossing ==
    (pc = "done" /\ size(initial_state.lb) \in {1, 2}) =>
        LET P == initial_state.lb
        IN  /\ hist = << [lb |-> P, bridge |-> {}, rb |-> {}],
                         [lb |-> {}, bridge |-> P, rb |-> {}],
                         [lb |-> {}, bridge |-> {}, rb |-> P] >>
            /\ \E p \in P : total_time(hist) = p.time
            /\ \A q \in P : q.time <= total_time(hist)

\* two people with different crossing times have crossed
SingleCrossingWitness ==
    /\ pc = "done"
    /\ size(initial_state.lb) = 2
    /\ \E p, q \in initial_state.lb : p.time < q.time /\ total_time(hist) = q.time

\* C13: with nobody to take over, cross makes no move and no assert fires: it
\* goes from the first snapshot straight to the return, the history is one
\* snapshot with three empty banks, and the total time is 0.
EmptyInput ==
    size(initial_state.lb) = 0 =>
        /\ pc \in {"L277", "L279", "L280", "L283", "done"}
        /\ state = EmptyState
        /\ pc = "done" => hist = <<EmptyState>> /\ total_time(hist) = 0

EmptyInputWitness ==
    /\ pc = "done"
    /\ initial_state.lb = {}
    /\ Len(hist) = 1

\* C14: the total time is 0 for the empty history and each snap() adds to it
\* the duration of the recorded state (0 if its bridge is empty, else the
\* largest crossing time on its bridge); no step ever lowers the total.
TotalTimeMonotone ==
    /\ [](hist = <<>> => total_time(hist) = 0)
    /\ [][LET Dur(s) == IF s.bridge = {} THEN 0
                        ELSE CHOOSE t \in {p.time : p \in s.bridge} :
                                \A p \in s.bridge : p.time <= t
          IN  /\ total_time(hist') >= total_time(hist)
              /\ pc \in SnapLines =>
                    total_time(hist') = total_time(hist) + Dur(state)
         ]_vars

\* a finished run in which occupied and empty bridges were both recorded
TotalTimeMonotoneWitness ==
    /\ pc = "done"
    /\ Len(hist) = 15
    /\ total_time(hist) > speed_across_bridge(hist[Len(hist) - 1])
\* C15: every trip that starts from the right bank is made by one person,
\* and nobody who was on the right bank when it started has a smaller
\* crossing time, or the same crossing time and a smaller ID.
ReturnByFastest ==
    \A i \in 2..Len(hist) :
        (hist[i].bridge # {} /\ hist[i].bridge \subseteq hist[i - 1].rb) =>
            /\ size(hist[i].bridge) = 1
            /\ \A p \in hist[i].bridge : \A q \in hist[i - 1].rb :
                  p.time < q.time \/ (p.time = q.time /\ p.ID <= q.ID)

\* a return trip was made while somebody as fast stayed on the right bank
ReturnByFastestWitness ==
    \E i \in 2..Len(hist) :
        /\ hist[i].bridge # {}
        /\ hist[i].bridge \subseteq hist[i - 1].rb
        /\ \E p \in hist[i].bridge : \E q \in hist[i].rb : p.time = q.time

\* C16: somebody who is not one of the two fastest people of the input and is
\* on the right bank in a snapshot is on the right bank in every later
\* snapshot; and whenever the couriers are about to be sent, the two fastest
\* people of the left bank are the two fastest people of the input.
OnlyCouriersReturn ==
    LET P == initial_state.lb
        Couriers == {p \in P : Cardinality({q \in P :
                        q.time < p.time \/ (q.time = p.time /\ q.ID < p.ID)}) < 2}
    IN  /\ \A i \in 1..Len(hist) : \A j \in i..Len(hist) :
              (hist[i].rb \ Couriers) \subseteq hist[j].rb
        /\ pc = "L295" =>
              {fastest(state.lb), fastest(state.lb \ {fastest(state.lb)})} = Couriers

\* the second pass is about to send the couriers, two others already across
OnlyCouriersReturnWitness ==
    /\ pc = "L295"
    /\ Len(hist) = 9
    /\ size(state.rb) = 2
    /\ size(state.lb) = 3

\* C17: with two people or more the returned history is the first snapshot
\* followed by one (bridge occupied, bridge empty) pair per crossing; the
\* crossings are odd in number and alternate, the odd ones taking two people
\* from the left bank to the right bank, the even ones one person from the
\* right bank to the left bank; nobody else moves during a crossing.
AlternatingCrossings ==
    (pc = "done" /\ size(initial_state.lb) >= 2) =>
        LET m == (Len(hist) - 1) \div 2
        IN  /\ Len(hist) = 2 * m + 1
            /\ m % 2 = 1
            /\ \A k \in 1..m :
                  LET a == hist[2 * k - 1]
                      b == hist[2 * k]
                      c == hist[2 * k + 1]
                      G == b.bridge
                  IN  /\ a.bridge = {}
                      /\ G # {}
                      /\ c.bridge = {}
                      /\ IF k % 2 = 1
                         THEN /\ size(G) = 2
                              /\ G \subseteq a.lb
                              /\ b.lb = a.lb \ G /\ b.rb = a.rb
                              /\ c.lb = b.lb /\ c.rb = a.rb \cup G
                         ELSE /\ size(G) = 1
                              /\ G \subseteq a.rb
                              /\ b.rb = a.rb \ G /\ b.lb = a.lb
                              /\ c.rb = b.rb /\ c.lb = a.lb \cup G

\* a finished run of five people: seven crossings
AlternatingCrossingsWitness ==
    /\ pc = "done"
    /\ size(initial_state.lb) = 5
    /\ Len(hist) = 15
    /\ size(hist[14].bridge) = 2
    /\ size(hist[12].bridge) = 1
\* C18: with the crossing times sorted t1 <= ... <= tN the total time of the
\* returned history is G(N): G(0) = 0, G(1) = t1, G(2) = t2,
\* G(3) = t1 + t2 + t3, G(N) = t1 + 2*t2 + tN + G(N-2) on t1..t(N-2).
TwoCourierTotal ==
    pc = "done" =>
        LET P == initial_state.lb
            t == [i \in 1..size(P) |-> InOrder(P)[i].time]
            RECURSIVE G(_)
            G(n) == CASE n = 0 -> 0
                      [] n = 1 -> t[1]
                      [] n = 2 -> t[2]
                      [] n = 3 -> t[1] + t[2] + t[3]
                      [] OTHER -> t[1] + 2 * t[2] + t[n] + G(n - 2)
        IN  /\ \A i \in 1..(size(P) - 1) : t[i] <= t[i + 1]
            /\ total_time(hist) = G(size(P))

\* times 1, 2, 2, 5: the two couriers cost 12 where escorting by the fastest
\* person would cost 11
TwoCourierTotalWitness ==
    /\ pc = "done"
    /\ size(initial_state.lb) = 4
    /\ {p.time : p \in initial_state.lb} = {1, 2, 5}
    /\ Cardinality({p \in initial_state.lb : p.time = 2}) = 2
    /\ total_time(hist) = 12

\* C19: with N >= 2 people the returned history has 4N - 5 snapshots; the
\* couriers are sent only with at least two people on the left bank, after a
\* whole number of passes of 8 snapshots, each of which took two people off
\* the left bank.
SnapshotCount ==
    LET N == size(initial_state.lb)
    IN  /\ (pc = "done" /\ N >= 2) => Len(hist) = 4 * N - 5
        /\ pc = "L295" =>
              /\ size(state.lb) >= 2
              /\ (Len(hist) - 1) % 8 = 0
              /\ size(state.lb) = N - 2 * ((Len(hist) - 1) \div 8)

\* three people: 7 snapshots, the run ends inside the first pass
SnapshotCountWitness ==
    /\ pc = "done"
    /\ size(initial_state.lb) = 3
    /\ Len(hist) = 7

\* C20: at every snap() the live state is not yet in the history, and no two
\* snapshots of the history are operator== to each other.
NeverRevisits ==
    /\ pc \in SnapLines => ~visited(hist, state)
    /\ \A i \in 1..Len(hist) : \A j \in (i + 1)..Len(hist) :
          ~StateEq(hist[i], hist[j])

\* C20 as amended: two snapshots of a run are operator== only if the earlier
\* is the one recorded when a slowest pair has arrived (the 7th of 8 in a
\* pass) and the later is recorded 6 snapshots on, when the first courier is
\* back on the left bank in the next pass; with at most four people no two
\* snapshots are operator==.
RevisitsOnlyAfterSlowestPair ==
    /\ \A i \in 1..Len(hist) : \A j \in (i + 1)..Len(hist) :
          StateEq(hist[i], hist[j]) => (j = i + 6 /\ i % 8 = 7)
    /\ (pc \in SnapLines /\ visited(hist, state)) =>
          (pc = "L258" /\ ret = "L304" /\ Len(hist) > 5
             /\ StateEq(hist[Len(hist) - 5], state))
    /\ size(initial_state.lb) <= 4 =>
          \A i \in 1..Len(hist) : \A j \in (i + 1)..Len(hist) :
              ~StateEq(hist[i], hist[j])

\* five people: snapshot 13 repeats snapshot 7
RevisitsOnlyAfterSlowestPairWitness ==
    /\ size(initial_state.lb) = 5
    /\ Len(hist) >= 13
    /\ StateEq(hist[7], hist[13])
    /\ visited(SubSeq(hist, 1, 12), hist[13])
====
